---- MODULE Spec2Model ----
(***************************************************************************)
(* Model of src/model.py: the byte-level Transformer encoder, its factory  *)
(* build_transformer and the explainer_model wrapper.                      *)
(*                                                                         *)
(* Tensors are modelled by their shape and dtype wherever the code's       *)
(* behaviour depends on shapes only (construction, embed / encode /        *)
(* project), and by fixed-point integer contents where values matter       *)
(* (attention masking, positional encoding).  A raised exception is a      *)
(* value of kind "error".                                                  *)
(***************************************************************************)
EXTENDS Integers, Sequences, FiniteSets, TLC

VARIABLES built, heap, caller, attn, mha, expl, shp, penc

vars == <<built, heap, caller, attn, mha, expl, shp, penc>>

(***************************************************************************)
(* Bounds of the model and constants of the program.                       *)
(***************************************************************************)
MaxN == 2
MaxDModel == 4
MaxH == 3
MaxBatch == 2
MaxCalls == 3

DefaultDModel == 64
DefaultN == 3
DefaultH == 4
DefaultDFF == 128
DefaultDropoutPct == 10
PackN == 1

(***************************************************************************)
(* Values: tensors (by shape), None, and raised exceptions.  ver counts    *)
(* the in-place writes a tensor has received.                              *)
(***************************************************************************)
Tensor(dtype, shape) ==
    [kind |-> "tensor", dtype |-> dtype, shape |-> shape, inrange |-> TRUE, err |-> "",
     ver |-> 0]

Ids(shape, ok) ==
    [kind |-> "tensor", dtype |-> "int", shape |-> shape, inrange |-> ok, err |-> "",
     ver |-> 0]

Raise(e) ==
    [kind |-> "error", dtype |-> "", shape |-> <<>>, inrange |-> TRUE, err |-> e,
     ver |-> 0]

NoneValue ==
    [kind |-> "none", dtype |-> "", shape |-> <<>>, inrange |-> TRUE, err |-> "",
     ver |-> 0]

IsTensor(v) == v.kind = "tensor"
IsError(v) == v.kind = "error"

\* F applied to the value of v, v evaluated once
With(v, F(_)) == CHOOSE y \in {F(u) : u \in {v}} : TRUE

Max(a, b) == IF a >= b THEN a ELSE b
Min(a, b) == IF a <= b THEN a ELSE b

RECURSIVE Numel(_)
Numel(s) == IF s = <<>> THEN 1 ELSE Head(s) * Numel(Tail(s))

\* dimension k of shape s counted from the right, 1 when s has fewer dims
DimR(s, k) == IF k <= Len(s) THEN s[Len(s) - k + 1] ELSE 1

BroadcastOk(s1, s2) ==
    \A k \in 1..Max(Len(s1), Len(s2)) :
        DimR(s1, k) = DimR(s2, k) \/ DimR(s1, k) = 1 \/ DimR(s2, k) = 1

RECURSIVE BroadcastDims(_, _, _)
BroadcastDims(s1, s2, k) ==
    IF k = 0 THEN <<>>
    ELSE <<IF DimR(s1, k) = 1 THEN DimR(s2, k) ELSE DimR(s1, k)>>
         \o BroadcastDims(s1, s2, k - 1)

BroadcastShape(s1, s2) == BroadcastDims(s1, s2, Max(Len(s1), Len(s2)))

\* a tensor of shape src can be written into (expanded to) a tensor of shape dst
ExpandsTo(src, dst) ==
    /\ Len(src) <= Len(dst)
    /\ \A k \in 1..Len(dst) : DimR(src, k) = DimR(dst, k) \/ DimR(src, k) = 1

\* elementwise binary operation of two values
ElementwiseOf(a, b) ==
    IF IsError(a) THEN a
    ELSE IF IsError(b) THEN b
    ELSE IF ~IsTensor(a) \/ ~IsTensor(b) THEN Raise("TypeError")
    ELSE IF ~BroadcastOk(a.shape, b.shape) THEN Raise("RuntimeError")
    ELSE Tensor("float", BroadcastShape(a.shape, b.shape))

Elementwise(x, y) == With(x, LAMBDA a : With(y, LAMBDA b : ElementwiseOf(a, b)))

SetLast(s, n) == [s EXCEPT ![Len(s)] = n]

\* a parameter tensor: its shape and how its values were initialised
Param(shape, init) == [shape |-> shape, init |-> init]

\* nn.Linear(in, out) applied to x
LinearOf(w, x) ==
    IF IsError(x) THEN x
    ELSE IF ~IsTensor(x) THEN Raise("TypeError")
    ELSE IF x.dtype # "float" \/ Len(x.shape) = 0 THEN Raise("RuntimeError")
    ELSE IF x.shape[Len(x.shape)] # w.shape[2] THEN Raise("RuntimeError")
    ELSE Tensor("float", SetLast(x.shape, w.shape[1]))

LinearForward(w, y) == With(y, LAMBDA x : LinearOf(w, x))

\* nn.Dropout keeps the shape
DropoutForward(x) == x

(***************************************************************************)
(* Module constructors.  The heap is the sequence of module instances      *)
(* created so far; an instance is named by its index, 0 is None.           *)
(***************************************************************************)
LayerNormalizationNew(features) ==
    [cls |-> "LayerNormalization", eps |-> "1e-6",
     alpha |-> Param(<<features>>, "ones"),
     bias |-> Param(<<features>>, "zeros")]

FeedForwardBlockNew(d_model, d_ff, dropout) ==
    [cls |-> "FeedForwardBlock",
     linear_1 |-> [weight |-> Param(<<d_ff, d_model>>, "default"),
                   bias |-> Param(<<d_ff>>, "default")],
     dropout |-> dropout,
     linear_2 |-> [weight |-> Param(<<d_model, d_ff>>, "default"),
                   bias |-> Param(<<d_model>>, "default")]]

InputEmbeddingsNew(d_model, vocab_size) ==
    [cls |-> "InputEmbeddings", d_model |-> d_model, vocab_size |-> vocab_size,
     embedding |-> Param(<<vocab_size, d_model>>, "default")]

\* the sinusoidal table: the odd columns receive cos(position * div_term),
\* which has one column per even index
PositionalEncodingOk(d_model, seq_len) ==
    LET evenCols == (d_model + 1) \div 2
        oddCols == d_model \div 2
    IN  ExpandsTo(<<seq_len, evenCols>>, <<seq_len, oddCols>>)

PositionalEncodingNew(d_model, seq_len, dropout) ==
    [cls |-> "PositionalEncoding", d_model |-> d_model, seq_len |-> seq_len,
     dropout |-> dropout,
     pe |-> [shape |-> <<1, seq_len, d_model>>, init |-> "sinusoid",
             requires_grad |-> FALSE]]

MultiHeadAttentionBlockOk(d_model, h) == d_model % h = 0

MultiHeadAttentionBlockNew(d_model, h, dropout) ==
    [cls |-> "MultiHeadAttentionBlock", d_model |-> d_model, h |-> h,
     d_k |-> d_model \div h,
     w_q |-> Param(<<d_model, d_model>>, "default"),
     w_k |-> Param(<<d_model, d_model>>, "default"),
     w_v |-> Param(<<d_model, d_model>>, "default"),
     w_o |-> Param(<<d_model, d_model>>, "default"),
     dropout |-> dropout,
     attention_scores |-> NoneValue]

ResidualConnectionNew(norm, dropout) ==
    [cls |-> "ResidualConnection", dropout |-> dropout, norm |-> norm]

EncoderBlockNew(att, ff, res) ==
    [cls |-> "EncoderBlock", self_attention_block |-> att,
     feed_forward_block |-> ff, residual_connections |-> res]

EncoderNew(layers, norm) ==
    [cls |-> "Encoder", layers |-> layers, norm |-> norm]

ProjectionLayerNew(d_model, class_size) ==
    [cls |-> "ProjectionLayer",
     proj |-> [weight |-> Param(<<class_size, d_model>>, "default"),
               bias |-> Param(<<class_size>>, "default")]]

TransformerNew(encoder, seq_embed, seq_pos, projection_layer) ==
    [cls |-> "Transformer", encoder |-> encoder, seq_embed |-> seq_embed,
     seq_pos |-> seq_pos, projection_layer |-> projection_layer]

(***************************************************************************)
(* The object graph.                                                       *)
(***************************************************************************)
SeqRange(s) == {s[i] : i \in 1..Len(s)}

Children(obj) ==
    IF obj.cls = "Transformer"
        THEN {obj.encoder, obj.seq_embed, obj.seq_pos, obj.projection_layer} \ {0}
    ELSE IF obj.cls = "Encoder" THEN SeqRange(obj.layers) \cup {obj.norm}
    ELSE IF obj.cls = "EncoderBlock"
        THEN {obj.self_attention_block, obj.feed_forward_block}
             \cup SeqRange(obj.residual_connections)
    ELSE IF obj.cls = "ResidualConnection" THEN {obj.norm}
    ELSE {}

RECURSIVE Reach(_, _)
Reach(hp, ids) ==
    LET next == ids \cup UNION {Children(hp[i]) : i \in ids}
    IN  IF next = ids THEN ids ELSE Reach(hp, next)

\* nn.init.xavier_uniform_ on every parameter with more than one dimension
XavierParam(p) == IF Len(p.shape) > 1 THEN [p EXCEPT !.init = "xavier_uniform"] ELSE p

XavierModule(obj) ==
    IF obj.cls = "FeedForwardBlock"
        THEN [obj EXCEPT !.linear_1.weight = XavierParam(@), !.linear_1.bias = XavierParam(@),
                         !.linear_2.weight = XavierParam(@), !.linear_2.bias = XavierParam(@)]
    ELSE IF obj.cls = "InputEmbeddings"
        THEN [obj EXCEPT !.embedding = XavierParam(@)]
    ELSE IF obj.cls = "MultiHeadAttentionBlock"
        THEN [obj EXCEPT !.w_q = XavierParam(@), !.w_k = XavierParam(@),
                         !.w_v = XavierParam(@), !.w_o = XavierParam(@)]
    ELSE IF obj.cls = "ProjectionLayer"
        THEN [obj EXCEPT !.proj.weight = XavierParam(@), !.proj.bias = XavierParam(@)]
    ELSE IF obj.cls = "LayerNormalization"
        THEN [obj EXCEPT !.alpha = XavierParam(@), !.bias = XavierParam(@)]
    ELSE obj

RECURSIVE XavierEach(_, _, _)
XavierEach(hp, ids, i) ==
    IF i > Len(hp) THEN <<>>
    ELSE <<IF i \in ids THEN XavierModule(hp[i]) ELSE hp[i]>> \o XavierEach(hp, ids, i + 1)

InitParameters(hp, root) == With(Reach(hp, {root}), LAMBDA ids : XavierEach(hp, ids, 1))

(***************************************************************************)
(* build_transformer.  Each stage returns the heap it leaves and the       *)
(* instances it created, or the exception that ended construction.         *)
(***************************************************************************)
\* EncoderBlock(features, attention, feed_forward, dropout): after the two
\* blocks it is given, its two ResidualConnections, each with its own norm
\* a block whose two residual connections hold one LayerNormalization instance
EncoderBlockBuildSharedNorm(hp, d_model, h, dropout, d_ff) ==
    LET n == Len(hp)
    IN  [heap |-> hp \o <<MultiHeadAttentionBlockNew(d_model, h, dropout),
                          FeedForwardBlockNew(d_model, d_ff, dropout),
                          LayerNormalizationNew(d_model),
                          ResidualConnectionNew(n + 3, dropout),
                          LayerNormalizationNew(d_model),
                          ResidualConnectionNew(n + 3, dropout),
                          EncoderBlockNew(n + 1, n + 2, <<n + 4, n + 6>>)>>,
         id |-> n + 7]

EncoderBlockBuild(hp, d_model, h, dropout, d_ff) ==
    LET n == Len(hp)
    IN  [heap |-> hp \o <<MultiHeadAttentionBlockNew(d_model, h, dropout),
                          FeedForwardBlockNew(d_model, d_ff, dropout),
                          LayerNormalizationNew(d_model),
                          ResidualConnectionNew(n + 3, dropout),
                          LayerNormalizationNew(d_model),
                          ResidualConnectionNew(n + 5, dropout),
                          EncoderBlockNew(n + 1, n + 2, <<n + 4, n + 6>>)>>,
         id |-> n + 7]

\* one pass of the block loop, after the passes before it
AppendBlock(prev, d_model, h, dropout, d_ff) ==
    IF prev.err # "" THEN prev
    ELSE IF ~MultiHeadAttentionBlockOk(d_model, h)
        THEN [err |-> "AssertionError", heap |-> prev.heap, ids |-> <<>>]
    ELSE With(EncoderBlockBuild(prev.heap, d_model, h, dropout, d_ff),
              LAMBDA b : [err |-> "", heap |-> b.heap, ids |-> Append(prev.ids, b.id)])

RECURSIVE BuildBlocks(_, _, _, _, _, _)
BuildBlocks(hp, n, d_model, h, dropout, d_ff) ==
    IF n = 0 THEN [err |-> "", heap |-> hp, ids |-> <<>>]
    ELSE With(BuildBlocks(hp, n - 1, d_model, h, dropout, d_ff),
              LAMBDA prev : AppendBlock(prev, d_model, h, dropout, d_ff))

Failed(e) == [err |-> e, heap |-> <<>>, transformer |-> 0, pack_transformer |-> 0]

\* Encoder, projection layer (unless header) and Transformer over the blocks
SequenceLevelFinish(a, seq_embed, seq_pos, blocks) ==
    IF blocks.err # "" THEN Failed(blocks.err)
    ELSE
        LET n == Len(blocks.heap)
        IN  [err |-> "",
             heap |-> blocks.heap
                      \o <<LayerNormalizationNew(a.d_model), EncoderNew(blocks.ids, n + 1)>>
                      \o (IF ~a.header
                          THEN <<ProjectionLayerNew(a.d_model * 2, a.class_size),
                                 TransformerNew(n + 2, seq_embed, seq_pos, n + 3)>>
                          ELSE <<TransformerNew(n + 2, seq_embed, seq_pos, 0)>>),
             transformer |-> IF ~a.header THEN n + 4 ELSE n + 3,
             pack_transformer |-> 0]

BuildSequenceLevel(hp, a) ==
    IF ~PositionalEncodingOk(a.d_model, a.seq_seq_len) THEN Failed("RuntimeError")
    ELSE With(BuildBlocks(hp \o <<InputEmbeddingsNew(a.d_model, a.seq_vocab_size),
                                   PositionalEncodingNew(a.d_model, a.seq_seq_len, a.dropout)>>,
                           a.N, a.d_model, a.h, a.dropout, a.d_ff),
              LAMBDA blocks : SequenceLevelFinish(a, Len(hp) + 1, Len(hp) + 2, blocks))

\* the packet-level Transformer: encoder only
PacketLevelFinish(a, transformer, pack_pos, blocks) ==
    IF blocks.err # "" THEN Failed(blocks.err)
    ELSE
        LET n == Len(blocks.heap)
        IN  [err |-> "",
             heap |-> blocks.heap
                      \o <<LayerNormalizationNew(a.d_model), EncoderNew(blocks.ids, n + 1),
                           TransformerNew(n + 2, 0, pack_pos, 0)>>,
             transformer |-> transformer,
             pack_transformer |-> n + 3]

BuildPacketLevel(seq, a) ==
    IF seq.err # "" THEN seq
    ELSE IF ~PositionalEncodingOk(a.d_model, a.seq_pack_len) THEN Failed("RuntimeError")
    ELSE With(BuildBlocks(Append(seq.heap,
                                 PositionalEncodingNew(a.d_model, a.seq_pack_len, a.dropout)),
                          PackN, a.d_model, a.h, a.dropout, a.d_ff),
              LAMBDA blocks : PacketLevelFinish(a, seq.transformer, Len(seq.heap) + 1, blocks))

\* the two loops over transformer.parameters() and pack_transformer.parameters()
InitializeBoth(r) ==
    IF r.err # "" THEN r
    ELSE With(InitParameters(r.heap, r.transformer),
              LAMBDA hp : [r EXCEPT !.heap = InitParameters(hp, r.pack_transformer)])

build_transformer(hp, a) ==
    With(BuildSequenceLevel(hp, a),
         LAMBDA seq : With(BuildPacketLevel(seq, a), LAMBDA r : InitializeBoth(r)))

(***************************************************************************)
(* Forward passes, on shapes.  A forward pass returns the value it         *)
(* computes, the heap as it leaves it, and its arguments as the caller     *)
(* finds them afterwards.                                                  *)
(***************************************************************************)
KeepDim(x) == Tensor("float", SetLast(x.shape, 1))

\* alpha * (x - mean) / (std + eps) + bias
LayerNormalizationForward(obj, x) ==
    IF IsError(x) THEN x
    ELSE IF x.dtype # "float" THEN Raise("RuntimeError")
    ELSE Elementwise(
            Elementwise(
                Elementwise(Tensor("float", obj.alpha.shape), Elementwise(x, KeepDim(x))),
                KeepDim(x)),
            Tensor("float", obj.bias.shape))

FeedForwardBlockForward(obj, x) ==
    LinearForward(obj.linear_2.weight,
                  DropoutForward(LinearForward(obj.linear_1.weight, x)))

InputEmbeddingsForward(obj, x) ==
    IF x.dtype # "int" THEN Raise("RuntimeError")
    ELSE IF ~x.inrange THEN Raise("IndexError")
    ELSE Tensor("float", Append(x.shape, obj.d_model))

\* self.pe[:, :x.shape[1], :]: a slice never raises, it stops at the table's end
PositionalEncodingSlice(obj, x) ==
    <<1, Min(x.shape[2], obj.pe.shape[2]), obj.pe.shape[3]>>

\* a forward that adds the table into its argument (x += pe) instead of x + pe
PositionalEncodingForwardInPlace(hp, id, x) ==
    IF Len(x.shape) < 2 THEN [out |-> Raise("IndexError"), heap |-> hp, x |-> x]
    ELSE [out |-> DropoutForward(
                      Elementwise(x, Tensor("float", PositionalEncodingSlice(hp[id], x)))),
          heap |-> [hp EXCEPT ![id].pe.requires_grad = FALSE],
          x |-> [x EXCEPT !.ver = @ + 1]]

PositionalEncodingForward(hp, id, x) ==
    IF Len(x.shape) < 2 THEN [out |-> Raise("IndexError"), heap |-> hp, x |-> x]
    ELSE [out |-> DropoutForward(
                      Elementwise(x, Tensor("float", PositionalEncodingSlice(hp[id], x)))),
          heap |-> [hp EXCEPT ![id].pe.requires_grad = FALSE],
          x |-> x]

\* t.view(t.shape[0], t.shape[1], h, d_k).transpose(1, 2)
ViewHeads(t, h, d_k) ==
    IF IsError(t) THEN t
    ELSE IF Len(t.shape) < 2 THEN Raise("IndexError")
    ELSE IF Numel(t.shape) # t.shape[1] * t.shape[2] * h * d_k THEN Raise("RuntimeError")
    ELSE Tensor("float", <<t.shape[1], h, t.shape[2], d_k>>)

\* mask.unsqueeze(1).unsqueeze(2).expand(-1, h, q_len, -1)
ExpandMask(mask, h, q_len) ==
    IF mask.kind = "none" THEN mask
    ELSE IF Len(mask.shape) # 2 THEN Raise("RuntimeError")
    ELSE Tensor("int", <<mask.shape[1], h, q_len, mask.shape[2]>>)

\* (batch, h, q_len, k_len) of query @ key.transpose(-2, -1)
ScoresShape(query, key) == <<query.shape[1], query.shape[2], query.shape[3], key.shape[3]>>

\* masked_fill_ writes into the freshly computed scores, never into the mask;
\* then softmax, dropout and the product with value
MaskedAttention(scores, m, value) ==
    IF IsError(m) THEN <<m, m>>
    ELSE IF IsTensor(m) /\ ~ExpandsTo(m.shape, scores) THEN <<Raise("RuntimeError"), Raise("RuntimeError")>>
    ELSE IF value.shape[1] # scores[1] \/ value.shape[3] # scores[4]
        THEN <<Raise("RuntimeError"), Raise("RuntimeError")>>
    ELSE <<Tensor("float", <<scores[1], scores[2], scores[3], value.shape[4]>>),
           DropoutForward(Tensor("float", scores))>>

\* MultiHeadAttentionBlock.attention: <<x, attention_scores>>, or the exception twice
Attention(query, key, value, mask) ==
    IF IsError(query) THEN <<query, query>>
    ELSE IF IsError(key) THEN <<key, key>>
    ELSE IF IsError(value) THEN <<value, value>>
    ELSE IF query.shape[1] # key.shape[1] \/ query.shape[4] # key.shape[4]
        THEN <<Raise("RuntimeError"), Raise("RuntimeError")>>
    ELSE With(ExpandMask(mask, query.shape[2], query.shape[3]),
              LAMBDA m : MaskedAttention(ScoresShape(query, key), m, value))

\* x.transpose(1, 2) alone, the heads left apart: (batch, seq_len, h, d_k)
CombineHeadsApart(x, h, d_k) ==
    Tensor("float", <<x.shape[1], x.shape[3], x.shape[2], x.shape[4]>>)

\* x.transpose(1, 2).contiguous().view(x.shape[0], -1, h * d_k)
CombineHeads(x, h, d_k) ==
    IF x.shape[1] * h * d_k = 0 THEN Raise("RuntimeError")
    ELSE IF Numel(x.shape) % (x.shape[1] * h * d_k) # 0 THEN Raise("RuntimeError")
    ELSE Tensor("float", <<x.shape[1], Numel(x.shape) \div (x.shape[1] * h * d_k), h * d_k>>)

\* a forward that returns self.w_o(combined x) and leaves the cache alone
AttentionOutputUncached(hp, id, att, mask) ==
    IF IsError(att[1]) THEN [out |-> att[1], heap |-> hp, mask |-> mask]
    ELSE [out |-> LinearForward(hp[id].w_o, CombineHeads(att[1], hp[id].h, hp[id].d_k)),
          heap |-> hp, mask |-> mask]

\* x, self.attention_scores = attention(...); return self.w_o(combined x)
AttentionOutput(hp, id, att, mask) ==
    IF IsError(att[1]) THEN [out |-> att[1], heap |-> hp, mask |-> mask]
    ELSE [out |-> LinearForward(hp[id].w_o, CombineHeads(att[1], hp[id].h, hp[id].d_k)),
          heap |-> [hp EXCEPT ![id].attention_scores = att[2]],
          mask |-> mask]

\* w(t).view(...).transpose(1, 2)
ProjectHeads(w, t, h, d_k) == With(LinearForward(w, t), LAMBDA p : ViewHeads(p, h, d_k))

MultiHeadAttentionBlockForward(hp, id, q, k, v, mask) ==
    With(ProjectHeads(hp[id].w_q, q, hp[id].h, hp[id].d_k), LAMBDA query :
    With(ProjectHeads(hp[id].w_k, k, hp[id].h, hp[id].d_k), LAMBDA key :
    With(ProjectHeads(hp[id].w_v, v, hp[id].h, hp[id].d_k), LAMBDA value :
    With(Attention(query, key, value, mask), LAMBDA att :
         AttentionOutput(hp, id, att, mask)))))

\* x + dropout(s), s the sublayer's result on norm(x)
ResidualAdd(x, s) ==
    [out |-> Elementwise(x, DropoutForward(s.out)), heap |-> s.heap, mask |-> s.mask]

\* x + dropout(sublayer(norm(x)))
ResidualConnectionForward(hp, id, x, Sublayer(_)) ==
    With(LayerNormalizationForward(hp[hp[id].norm], x),
         LAMBDA n : With(Sublayer(n), LAMBDA s : ResidualAdd(x, s)))

\* residual_connections[1](x, feed_forward_block), x the first residual's result
EncoderBlockFeedForward(obj, r) ==
    ResidualConnectionForward(r.heap, obj.residual_connections[2], r.out,
        LAMBDA n : [out |-> FeedForwardBlockForward(r.heap[obj.feed_forward_block], n),
                    heap |-> r.heap, mask |-> r.mask])

EncoderBlockForward(hp, id, x, seq_mask) ==
    With(ResidualConnectionForward(hp, hp[id].residual_connections[1], x,
            LAMBDA n : MultiHeadAttentionBlockForward(
                           hp, hp[id].self_attention_block, n, n, n, seq_mask)),
         LAMBDA r : EncoderBlockFeedForward(hp[id], r))

\* for layer in self.layers: x = layer(x, mask); an exception ends the loop
RECURSIVE EncoderLayers(_, _, _)
EncoderLayers(r, layers, i) ==
    IF i > Len(layers) \/ IsError(r.out) THEN r
    ELSE With(EncoderBlockForward(r.heap, layers[i], r.out, r.mask),
              LAMBDA next : EncoderLayers(next, layers, i + 1))

EncoderNorm(norm, r) == [r EXCEPT !.out = LayerNormalizationForward(norm, @)]

EncoderForward(hp, id, x, mask) ==
    With(EncoderLayers([out |-> x, heap |-> hp, mask |-> mask], hp[id].layers, 1),
         LAMBDA r : EncoderNorm(hp[hp[id].norm], r))

(***************************************************************************)
(* Transformer.embed / encode / project.                                   *)
(***************************************************************************)
TransformerEmbed(hp, id, seq) ==
    IF hp[id].seq_embed = 0 THEN [out |-> Raise("TypeError"), heap |-> hp, seq |-> seq]
    ELSE [out |-> InputEmbeddingsForward(hp[hp[id].seq_embed], seq), heap |-> hp,
          seq |-> seq]

\* return self.encoder(seq, mask), seq the positional encoding's result p.out
EncodeAfterPosition(hp, encoder, p, mask) ==
    IF IsError(p.out) THEN [out |-> p.out, heap |-> p.heap, mask |-> mask, seq |-> p.x]
    ELSE [seq |-> p.x] @@ EncoderForward(p.heap, encoder, p.out, mask)

TransformerEncode(hp, id, seq, mask) ==
    With(PositionalEncodingForward(hp, hp[id].seq_pos, seq),
         LAMBDA p : EncodeAfterPosition(hp, hp[id].encoder, p, mask))

ProjectionLayerForward(obj, x) == LinearForward(obj.proj.weight, x)

\* a project that returns its input when there is no projection layer
TransformerProjectPassThrough(hp, id, x) ==
    IF hp[id].projection_layer = 0 THEN [out |-> x, heap |-> hp, x |-> x]
    ELSE [out |-> ProjectionLayerForward(hp[hp[id].projection_layer], x), heap |-> hp,
          x |-> x]

TransformerProject(hp, id, x) ==
    IF hp[id].projection_layer = 0 THEN [out |-> Raise("TypeError"), heap |-> hp, x |-> x]
    ELSE [out |-> ProjectionLayerForward(hp[hp[id].projection_layer], x), heap |-> hp,
          x |-> x]

(***************************************************************************)
(* Specification Spec: one call of build_transformer, then any sequence of *)
(* embed / encode / project calls on the two returned Transformers.        *)
(***************************************************************************)
Idle == [pc |-> "idle"]

DModels == 1..MaxDModel
Heads == 1..MaxH
Depths == {0, MaxN}
Batches == {1, MaxBatch}
\* <<seq_seq_len, seq_pack_len, class_size>>
SmallSizes == <<2, 1, 3>>
DefaultSizes == <<150, 10, 2>>

Args(d_model, N, h, header, sizes) ==
    [seq_vocab_size |-> 256, seq_seq_len |-> sizes[1], seq_pack_len |-> sizes[2],
     class_size |-> sizes[3], d_model |-> d_model, N |-> N, h |-> h,
     dropout |-> DefaultDropoutPct, d_ff |-> DefaultDFF, header |-> header]

DefaultArgs == Args(DefaultDModel, DefaultN, DefaultH, FALSE, DefaultSizes)

\* small widths, depths and head counts, and the defaults of the signature
BuildArgs ==
    {Args(d, n, h, hd, SmallSizes) : d \in DModels, n \in Depths, h \in Heads,
                                     hd \in BOOLEAN}
    \cup {[DefaultArgs EXCEPT !.header = hd, !.h = h] : hd \in BOOLEAN, h \in {DefaultH, 5}}

\* the tensors a caller passes: token ids, embedded sequences, pooled vectors
InputLens(a) == {a.seq_pack_len, a.seq_seq_len, a.seq_seq_len + 1}
InputWidths(a) == {a.d_model, 2 * a.d_model}

InputTensors(a) ==
    {Ids(<<b, l>>, ok) : b \in Batches, l \in InputLens(a), ok \in BOOLEAN}
    \cup {Tensor("float", <<b, l, w>>) :
              b \in Batches, l \in InputLens(a), w \in InputWidths(a)}
    \cup {Tensor("float", <<b, w>>) : b \in Batches, w \in InputWidths(a)}

InputMasks(t) ==
    {NoneValue, Tensor("int", <<t.shape[1], t.shape[2]>>),
     Tensor("int", <<t.shape[1], t.shape[2] + 1>>)}

NoCall == [origin |-> NoneValue, mask |-> NoneValue, cur |-> NoneValue, hist |-> <<>>,
           arg |-> NoneValue, argAfter |-> NoneValue, maskAfter |-> NoneValue]

Init ==
    /\ built = [pc |-> "init", args |-> DefaultArgs, err |-> "",
                transformer |-> 0, pack_transformer |-> 0]
    /\ heap = <<>>
    /\ caller = NoCall
    /\ attn = Idle /\ mha = Idle /\ expl = Idle /\ shp = Idle /\ penc = Idle

Others == <<attn, mha, expl, shp, penc>>

Build ==
    /\ built.pc = "init"
    /\ \E a \in BuildArgs : \E r \in {build_transformer(heap, a)} :
            /\ built' = [pc |-> IF r.err = "" THEN "built" ELSE "failed", args |-> a,
                         err |-> r.err, transformer |-> r.transformer,
                         pack_transformer |-> r.pack_transformer]
            /\ heap' = r.heap
    /\ UNCHANGED <<caller, Others>>

\* the caller takes a fresh batch
Feed ==
    /\ built.pc = "built"
    /\ caller = NoCall
    /\ \E t \in InputTensors(built.args) : \E m \in InputMasks(t) :
        caller' = [NoCall EXCEPT !.origin = t, !.mask = m, !.cur = t]
    /\ UNCHANGED <<built, heap, Others>>

Which(i) == IF i = 1 THEN built.transformer ELSE built.pack_transformer

CanCall ==
    /\ built.pc = "built"
    /\ IsTensor(caller.cur)
    /\ Len(caller.hist) < MaxCalls

Embed(i) ==
    /\ CanCall
    /\ \E r \in {TransformerEmbed(heap, Which(i), caller.cur)} :
           /\ heap' = r.heap
           /\ caller' = [caller EXCEPT !.cur = r.out, !.hist = Append(@, <<"embed", i>>),
                                       !.arg = caller.cur, !.argAfter = r.seq,
                                       !.maskAfter = caller.mask]
    /\ UNCHANGED <<built, Others>>

Encode(i) ==
    /\ CanCall
    /\ \E r \in {TransformerEncode(heap, Which(i), caller.cur, caller.mask)} :
           /\ heap' = r.heap
           /\ caller' = [caller EXCEPT !.cur = r.out, !.hist = Append(@, <<"encode", i>>),
                                       !.arg = caller.cur, !.argAfter = r.seq,
                                       !.maskAfter = r.mask]
    /\ UNCHANGED <<built, Others>>

Project(i) ==
    /\ CanCall
    /\ \E r \in {TransformerProject(heap, Which(i), caller.cur)} :
           /\ heap' = r.heap
           /\ caller' = [caller EXCEPT !.cur = r.out, !.hist = Append(@, <<"project", i>>),
                                       !.arg = caller.cur, !.argAfter = r.x,
                                       !.maskAfter = caller.mask]
    /\ UNCHANGED <<built, Others>>

EmbedAny == \E i \in 1..2 : Embed(i)
EncodeAny == \E i \in 1..2 : Encode(i)
ProjectAny == \E i \in 1..2 : Project(i)

Next == Build \/ Feed \/ EmbedAny \/ EncodeAny \/ ProjectAny

Spec == Init /\ [][Next]_vars

(***************************************************************************)
(* Properties of build_transformer and of the Transformer operations.      *)
(***************************************************************************)
LastCall == caller.hist[Len(caller.hist)]
Called == built.pc = "built" /\ caller.hist # <<>>

IsMask(m, t) == m.kind = "none" \/ m.shape = <<t.shape[1], t.shape[2]>>

\* C1: with the default d_model, vocabulary 256, seq_seq_len 150, seq_pack_len 10
\* and class_size 2, project(encode(embed(ids), mask)) on the first Transformer
\* yields a tensor of shape (batch, seq_len, class_size) for in-range ids of
\* length seq_len <= seq_seq_len.
C1_EndToEndShape ==
    ( /\ built.pc = "built"
      /\ built.args = DefaultArgs
      /\ caller.hist = << <<"embed", 1>>, <<"encode", 1>>, <<"project", 1>> >>
      /\ caller.origin.dtype = "int" /\ caller.origin.inrange
      /\ caller.origin.shape[2] <= built.args.seq_seq_len
      /\ IsMask(caller.mask, caller.origin) )
    => caller.cur = Tensor("float", <<caller.origin.shape[1], caller.origin.shape[2],
                                      built.args.class_size>>)

\* C2: build_transformer fails with an assertion error whenever d_model is not
\* divisible by h, and succeeds whenever d_model % h = 0, in which case
\* d_k * h = d_model in every attention block.
C2_DivisibilityDecidesConstruction ==
    built.pc # "init" =>
        /\ built.args.d_model % built.args.h # 0 => built.err = "AssertionError"
        /\ built.args.d_model % built.args.h = 0 =>
              /\ built.pc = "built"
              /\ \A i \in 1..Len(heap) :
                    heap[i].cls = "MultiHeadAttentionBlock"
                        => heap[i].d_k * heap[i].h = heap[i].d_model

Parents(hp, i) == {j \in 1..Len(hp) : i \in Children(hp[j])}

NoDuplicates(seq) == \A i, j \in 1..Len(seq) : seq[i] = seq[j] => i = j

Unshared(hp) ==
    /\ \A i \in 1..Len(hp) : Cardinality(Parents(hp, i)) <= 1
    /\ \A j \in 1..Len(hp) :
          /\ hp[j].cls = "Encoder" => NoDuplicates(hp[j].layers) /\ hp[j].norm \notin SeqRange(hp[j].layers)
          /\ hp[j].cls = "EncoderBlock" =>
                /\ NoDuplicates(hp[j].residual_connections)
                /\ hp[j].self_attention_block # hp[j].feed_forward_block
          /\ hp[j].cls = "Transformer" =>
                Cardinality(Children(hp[j])) =
                    2 + (IF hp[j].seq_embed = 0 THEN 0 ELSE 1)
                      + (IF hp[j].projection_layer = 0 THEN 0 ELSE 1)

\* C4: the returned pair is (sequence-level, packet-level): the first has N
\* encoder blocks, an embedding, a positional table of length seq_seq_len and,
\* unless header, a projection from 2 * d_model to class_size; the second has
\* one block, a table of length seq_pack_len and neither embedding nor
\* projection; no submodule instance is shared.
C4_ReturnedPair ==
    built.pc = "built" /\ caller = NoCall =>
        /\ built.transformer # built.pack_transformer
        /\ \E t \in {heap[built.transformer]} : \E p \in {heap[built.pack_transformer]} :
            /\ t.cls = "Transformer" /\ p.cls = "Transformer"
            /\ heap[t.encoder].cls = "Encoder"
            /\ Len(heap[t.encoder].layers) = built.args.N
            /\ \A k \in 1..built.args.N : heap[heap[t.encoder].layers[k]].cls = "EncoderBlock"
            /\ t.seq_embed # 0 /\ heap[t.seq_embed].cls = "InputEmbeddings"
            /\ heap[t.seq_pos].cls = "PositionalEncoding"
            /\ heap[t.seq_pos].pe.shape[2] = built.args.seq_seq_len
            /\ built.args.header <=> t.projection_layer = 0
            /\ ~built.args.header =>
                  /\ heap[t.projection_layer].cls = "ProjectionLayer"
                  /\ heap[t.projection_layer].proj.weight.shape
                        = <<built.args.class_size, 2 * built.args.d_model>>
            /\ heap[p.encoder].cls = "Encoder"
            /\ Len(heap[p.encoder].layers) = 1
            /\ heap[p.seq_pos].cls = "PositionalEncoding"
            /\ heap[p.seq_pos].pe.shape[2] = built.args.seq_pack_len
            /\ p.seq_embed = 0 /\ p.projection_layer = 0
        /\ Reach(heap, {built.transformer}) \cap Reach(heap, {built.pack_transformer}) = {}
        /\ Unshared(heap)

C4_Witness ==
    /\ built.pc = "built"
    /\ caller = NoCall
    /\ built.args.N = MaxN
    /\ ~built.args.header
    /\ built.args.seq_seq_len # built.args.seq_pack_len

\* the heap without the attention blocks' caches
Uncached(obj) ==
    IF obj.cls = "MultiHeadAttentionBlock"
    THEN [obj EXCEPT !.attention_scores = NoneValue]
    ELSE obj

RECURSIVE Frozen(_)
Frozen(hp) == IF hp = <<>> THEN <<>> ELSE <<Uncached(Head(hp))>> \o Frozen(Tail(hp))

\* C9: no embed, encode or project call, successful or failing, changes the
\* object graph, a parameter or the positional table, nor the caller's tensor
\* and mask; a call writes only the attention blocks' cached attention_scores.
C9_ImmutableAfterConstruction ==
    [][built.pc = "built" =>
          /\ built' = built
          /\ Frozen(heap') = Frozen(heap)
          /\ caller'.hist # <<>> /\ caller'.hist # caller.hist =>
                /\ caller'.arg = caller.cur
                /\ caller'.argAfter = caller.cur
                /\ caller'.maskAfter = caller.mask
                /\ caller'.origin = caller.origin]_vars

C9_Witness ==
    /\ Called
    /\ \E i \in 1..Len(heap) :
          /\ heap[i].cls = "MultiHeadAttentionBlock"
          /\ heap[i].attention_scores.kind = "tensor"
    /\ IsError(caller.cur)

(***************************************************************************)
(* PositionalEncoding by value.  Numbers are in thousandths.               *)
(***************************************************************************)
MaxLen == 3

RECURSIVE Pow10(_)
Pow10(k) == IF k <= 0 THEN 1 ELSE 10 * Pow10(k - 1)

\* exp(2i * (-log(10000.0) / d_model)) = 10 ^ (-8i / d_model), exact for the
\* widths that divide 8i
DivTerm(i, d_model) == Pow10(3 - (8 * i) \div d_model)

\* integer quotient rounded toward zero
Quot(a, b) == IF a >= 0 THEN a \div b ELSE -((-a) \div b)

\* term + the following terms of the sine / cosine series of x, the factorial
\* growing by k (k + 1) from one term to the next
RECURSIVE SeriesFrom(_, _, _)
SeriesFrom(term, x, k) ==
    IF term = 0 \/ k > 24 THEN 0
    ELSE term + SeriesFrom(-Quot(Quot(Quot(term * x, 1000) * x, 1000), k * (k + 1)),
                           x, k + 2)

Sin(x) == SeriesFrom(x, x, 2)
Cos(x) == SeriesFrom(1000, x, 1)

\* pe[position, 0::2] = sin(position * div_term); pe[position, 1::2] = cos(...)
PositionalEncodingRow(position, d_model) ==
    [c \in 1..d_model |->
        IF c % 2 = 1 THEN Sin(position * DivTerm((c - 1) \div 2, d_model))
                     ELSE Cos(position * DivTerm((c - 2) \div 2, d_model))]

PositionalEncodingTable(d_model, seq_len) ==
    [r \in 1..seq_len |-> PositionalEncodingRow(r - 1, d_model)]

\* self.pe[:, -x.shape[1]:, :], the last rows of the table
PositionalEncodingRowsFromEnd(pe, len) ==
    SubSeq(pe, Len(pe) - Min(len, Len(pe)) + 1, Len(pe))

\* self.pe[:, :x.shape[1], :]
PositionalEncodingRows(pe, len) == SubSeq(pe, 1, Min(len, Len(pe)))

\* x + rows: one row is broadcast over the positions, as rows are over the batch
AddRows(x, rows) ==
    IF Len(rows) # Len(x[1]) /\ Len(rows) # 1 THEN <<>>
    ELSE [b \in 1..Len(x) |-> [p \in 1..Len(x[b]) |-> [c \in 1..Len(x[b][p]) |->
             x[b][p][c] + rows[IF Len(rows) = 1 THEN 1 ELSE p][c]]]]

\* nn.Dropout on a (batch, positions, width) tensor: the identity in eval mode;
\* in training the elements of drop.dropped become 0 and the others are
\* divided by 1 - p
Kept(v, pct) == (v * 100) \div (100 - pct)

DropoutValues(t, drop, pct) ==
    IF ~drop.training THEN t
    ELSE [b \in 1..Len(t) |-> [p \in 1..Len(t[b]) |-> [c \in 1..Len(t[b][p]) |->
             IF <<b, p, c>> \in drop.dropped THEN 0 ELSE Kept(t[b][p][c], pct)]]]

\* PositionalEncoding.forward: the rows read, and the result or the exception
PositionalEncodingValues(pe, x, drop, pct) ==
    With(PositionalEncodingRows(pe, Len(x[1])), LAMBDA rows :
        [rows |-> rows,
         err |-> IF AddRows(x, rows) = <<>> THEN "RuntimeError" ELSE "",
         out |-> DropoutValues(AddRows(x, rows), drop, pct)])

(***************************************************************************)
(* Specification SpecPE: a PositionalEncoding is constructed and called.   *)
(***************************************************************************)
Lengths == 1..MaxLen
Seeds == 0..1

\* a (batch, len, width) input with varied contents
Pattern(batch, len, width, seed) ==
    [b \in 1..batch |-> [p \in 1..len |-> [c \in 1..width |->
        ((seed + 3 * b + 5 * p + 7 * c) % 4) * 500 - 500]]]

Drops == {[training |-> FALSE, dropped |-> {}], [training |-> TRUE, dropped |-> {}],
          [training |-> TRUE, dropped |-> {<<1, 1, 1>>}]}

PEConstruct ==
    /\ penc = Idle
    /\ \E d_model \in DModels, seq_len \in Lengths :
          penc' = IF PositionalEncodingOk(d_model, seq_len)
                  THEN [pc |-> "built", d_model |-> d_model, err |-> "",
                        pe |-> PositionalEncodingTable(d_model, seq_len)]
                  ELSE [pc |-> "failed", d_model |-> d_model, err |-> "RuntimeError",
                        pe |-> <<>>]
    /\ UNCHANGED <<built, heap, caller, attn, mha, expl, shp>>

PEForward ==
    /\ penc.pc = "built"
    /\ \E batch \in Batches, len \in 1..(MaxLen + 1), seed \in Seeds, drop \in Drops :
       \E x \in {Pattern(batch, len, penc.d_model, seed)} :
       \E r \in {PositionalEncodingValues(penc.pe, x, drop, DefaultDropoutPct)} :
          penc' = [pc |-> "called", d_model |-> penc.d_model, err |-> r.err,
                   pe |-> penc.pe, x |-> x, drop |-> drop, rows |-> r.rows,
                   out |-> r.out]
    /\ UNCHANGED <<built, heap, caller, attn, mha, expl, shp>>

NextPE == PEConstruct \/ PEForward

SpecPE == Init /\ [][NextPE]_vars

\* element (b, p, c) of the result is input plus table row p, column c, after dropout
AddsRow(b, p, c) ==
    penc.out[b][p][c] =
        IF ~penc.drop.training THEN penc.x[b][p][c] + penc.pe[p][c]
        ELSE IF <<b, p, c>> \in penc.drop.dropped THEN 0
        ELSE Kept(penc.x[b][p][c] + penc.pe[p][c], DefaultDropoutPct)

\* C10: on an input of L positions, with L at most the table length, forward
\* adds table row p to position p of every batch element and reads no row
\* beyond L; with L above the table length the lookup raises no index error
\* and yields exactly the table's rows.
C10_PositionalSlice ==
    penc.pc = "called" =>
        /\ penc.err # "IndexError"
        /\ Len(penc.x[1]) <= Len(penc.pe) =>
              /\ penc.err = ""
              /\ Len(penc.rows) = Len(penc.x[1])
              /\ \A b \in 1..Len(penc.x) : \A p \in 1..Len(penc.x[b]) :
                    \A c \in 1..penc.d_model : AddsRow(b, p, c)
        /\ Len(penc.x[1]) > Len(penc.pe) => penc.rows = penc.pe

C10_Witness ==
    /\ penc.pc = "called"
    /\ Len(penc.x[1]) > Len(penc.pe)
    /\ penc.rows = penc.pe
    /\ Len(penc.pe) > 1
    /\ penc.err = "RuntimeError"

(***************************************************************************)
(* Specification SpecShape: a MultiHeadAttentionBlock and an Encoder over  *)
(* N blocks are constructed directly and called on (batch, seq_len,        *)
(* d_model) inputs.                                                        *)
(***************************************************************************)
\* MultiHeadAttentionBlock(d_model, h, dropout), then Encoder(d_model,
\* ModuleList of N EncoderBlocks): the attention block is object 1
ShapeModules(d_model, h, N) ==
    With(BuildBlocks(<<MultiHeadAttentionBlockNew(d_model, h, DefaultDropoutPct)>>,
                     N, d_model, h, DefaultDropoutPct, DefaultDFF),
         LAMBDA blocks :
            [heap |-> blocks.heap \o <<LayerNormalizationNew(d_model),
                                       EncoderNew(blocks.ids, Len(blocks.heap) + 1)>>,
             encoder |-> Len(blocks.heap) + 2])

ShapeConstruct ==
    /\ shp = Idle
    /\ \E d_model \in DModels, h \in Heads, N \in 0..MaxN :
          shp' = IF MultiHeadAttentionBlockOk(d_model, h)
                 THEN [pc |-> "built", err |-> "", d_model |-> d_model, h |-> h, N |-> N]
                      @@ ShapeModules(d_model, h, N)
                 ELSE [pc |-> "failed", err |-> "AssertionError", d_model |-> d_model,
                       h |-> h, N |-> N, heap |-> <<>>, encoder |-> 0]
    /\ UNCHANGED <<built, heap, caller, attn, mha, expl, penc>>

ShapeInputs == {Tensor("float", <<b, l, shp.d_model>>) : b \in Batches, l \in Lengths}
ShapeMasks(x) == {NoneValue, Tensor("int", <<x.shape[1], x.shape[2]>>)}

ShapeAttend ==
    /\ shp.pc = "built"
    /\ \E x \in ShapeInputs : \E mask \in ShapeMasks(x) :
       \E r \in {MultiHeadAttentionBlockForward(shp.heap, 1, x, x, x, mask)} :
          shp' = [shp EXCEPT !.pc = "attended", !.heap = r.heap] @@
                 [x |-> x, mask |-> mask, out |-> r.out]
    /\ UNCHANGED <<built, heap, caller, attn, mha, expl, penc>>

ShapeEncode ==
    /\ shp.pc = "built"
    /\ \E x \in ShapeInputs : \E mask \in ShapeMasks(x) :
       \E r \in {EncoderForward(shp.heap, shp.encoder, x, mask)} :
          shp' = [shp EXCEPT !.pc = "encoded", !.heap = r.heap] @@
                 [x |-> x, mask |-> mask, out |-> r.out]
    /\ UNCHANGED <<built, heap, caller, attn, mha, expl, penc>>

NextShape == ShapeConstruct \/ ShapeAttend \/ ShapeEncode

SpecShape == Init /\ [][NextShape]_vars

\* C8: with d_model divisible by h, MultiHeadAttentionBlock.forward with
\* q = k = v of shape (batch, seq_len, d_model) returns that shape whatever h
\* is, and Encoder.forward over N >= 0 blocks and the final normalization
\* returns a tensor of exactly the input's shape.
C8_ShapePreserved ==
    shp.pc \in {"attended", "encoded"} =>
        /\ shp.d_model % shp.h = 0
        /\ Len(shp.heap[shp.encoder].layers) = shp.N
        /\ shp.out = Tensor("float", shp.x.shape)

C8_Witness ==
    /\ shp.pc = "encoded"
    /\ shp.N = MaxN
    /\ shp.h > 1
    /\ shp.x.shape = <<MaxBatch, MaxLen, shp.d_model>>
    /\ shp.out = Tensor("float", shp.x.shape)

(***************************************************************************)
(* explainer_model.                                                        *)
(***************************************************************************)
MaskEntries == 257

ExplainerNew(config) ==
    [cls |-> "explainer_model",
     mask_header |-> [requires_grad |-> TRUE] @@ Param(<<MaskEntries>>, "ones"),
     mask_payload |-> [requires_grad |-> TRUE] @@ Param(<<MaskEntries>>, "ones"),
     config |-> config]

\* torch.sigmoid(self.<name>)
Sigmoid(self, name) == [op |-> "sigmoid", of |-> name, param |-> self[name]]

\* the arguments of the first compute_emb call
PayloadCall(self, model, model_pack, seq, mask) ==
    [model |-> model, packet_model |-> model_pack, sequence |-> seq,
     validity_mask |-> mask,
     truncation_length |-> self.config.BYTE_PAD_TRUNC_LENGTH,
     value_weights |-> Sigmoid(self, "mask_payload"),
     baseline |-> self.config.baseline]

\* a second call that weighs the header bytes with the payload's mask parameter
HeaderCallPayloadWeights(self, header_model, header_model_pack, seq_header, seq_header_mask) ==
    [model |-> header_model, packet_model |-> header_model_pack, sequence |-> seq_header,
     validity_mask |-> seq_header_mask,
     truncation_length |-> self.config.HEADER_BYTE_PAD_TRUNC_LENGTH,
     value_weights |-> Sigmoid(self, "mask_payload"),
     baseline |-> self.config.baseline]

\* the arguments of the second compute_emb call
HeaderCall(self, header_model, header_model_pack, seq_header, seq_header_mask) ==
    [model |-> header_model, packet_model |-> header_model_pack, sequence |-> seq_header,
     validity_mask |-> seq_header_mask,
     truncation_length |-> self.config.HEADER_BYTE_PAD_TRUNC_LENGTH,
     value_weights |-> Sigmoid(self, "mask_header"),
     baseline |-> self.config.baseline]

\* utils.compute_emb, by its contract: a pooled embedding of shape
\* (batch, d_model), d_model the width of the model it is given
compute_emb(hp, args) ==
    Tensor("float", <<args.sequence.shape[1], hp[hp[args.model].seq_pos].pe.shape[3]>>)

\* torch.cat([a, b], dim = 1) of two matrices
TorchCat(a, b) ==
    IF a.shape[1] # b.shape[1] THEN Raise("RuntimeError")
    ELSE Tensor("float", <<a.shape[1], a.shape[2] + b.shape[2]>>)

\* pred = model.project(emb), emb the concatenation of parts
ExplainerProject(hp, model, calls, parts, emb) ==
    [calls |-> calls, parts |-> parts, emb |-> emb,
     pred |-> IF IsError(emb) THEN emb ELSE TransformerProject(hp, model, emb).out]

ExplainerForward(hp, self, model, header_model, model_pack, header_model_pack, seq, mask, seq_header, seq_header_mask) ==
    With(<<PayloadCall(self, model, model_pack, seq, mask),
           HeaderCall(self, header_model, header_model_pack, seq_header, seq_header_mask)>>,
         LAMBDA calls :
    With(<<compute_emb(hp, calls[1]), compute_emb(hp, calls[2])>>,
         LAMBDA parts :
            ExplainerProject(hp, model, calls, parts, TorchCat(parts[1], parts[2]))))

(***************************************************************************)
(* Specification SpecExplain: two pairs of Transformers are built, an      *)
(* explainer_model is constructed and its forward is called.               *)
(***************************************************************************)
Configs ==
    {[BYTE_PAD_TRUNC_LENGTH |-> 150, HEADER_BYTE_PAD_TRUNC_LENGTH |-> hl, baseline |-> bl] :
        hl \in {40, 150}, bl \in BOOLEAN}

\* widths every module of build_transformer accepts, one head, no block
ExplainArgs(sizes) ==
    {Args(d, 0, 1, hd, sizes) : d \in {w \in DModels : PositionalEncodingOk(w, 1)},
                                hd \in BOOLEAN}

ExplainBuild ==
    /\ expl = Idle
    /\ \E a1 \in ExplainArgs(SmallSizes), a2 \in ExplainArgs(<<3, 1, 2>>), config \in Configs :
       \E r1 \in {build_transformer(<<>>, a1)} :
       \E r2 \in {build_transformer(r1.heap, a2)} :
          expl' = [pc |-> "built", heap |-> r2.heap,
                   pairs |-> << <<r1.transformer, r1.pack_transformer>>,
                                <<r2.transformer, r2.pack_transformer>> >>,
                   self |-> ExplainerNew(config)]
    /\ UNCHANGED <<built, heap, caller, attn, mha, shp, penc>>

\* the caller hands one pair as the payload models and the other as the
\* header models, with a payload batch and a header batch
ExplainForward ==
    /\ expl.pc = "built"
    /\ \E i \in 1..2, b1 \in Batches, b2 \in Batches :
       \E a \in {[model |-> expl.pairs[i][1], model_pack |-> expl.pairs[i][2],
                  header_model |-> expl.pairs[3 - i][1],
                  header_model_pack |-> expl.pairs[3 - i][2],
                  seq |-> Ids(<<b1, 150>>, TRUE), mask |-> Tensor("int", <<b1, 150>>),
                  seq_header |-> Ids(<<b2, 40>>, TRUE),
                  seq_header_mask |-> Tensor("int", <<b2, 40>>)]} :
       \E r \in {ExplainerForward(expl.heap, expl.self, a.model, a.header_model,
                                  a.model_pack, a.header_model_pack, a.seq, a.mask,
                                  a.seq_header, a.seq_header_mask)} :
          expl' = [expl EXCEPT !.pc = "called"] @@ [a |-> a] @@ r
    /\ UNCHANGED <<built, heap, caller, attn, mha, shp, penc>>

NextExplain == ExplainBuild \/ ExplainForward

SpecExplain == Init /\ [][NextExplain]_vars

Width(id) == expl.heap[expl.heap[id].seq_pos].pe.shape[3]

Threads == 1..2

Waiting == [pc |-> "idle"]

CacheConstruct ==
    /\ mha = Idle
    /\ \E d_model \in DModels, h \in Heads :
          /\ MultiHeadAttentionBlockOk(d_model, h)
          /\ mha' = [pc |-> "live",
                     heap |-> <<MultiHeadAttentionBlockNew(d_model, h, DefaultDropoutPct)>>,
                     th |-> [t \in Threads |-> Waiting], writes |-> <<>>]
    /\ UNCHANGED <<built, heap, caller, attn, expl, shp, penc>>

CacheInputs(d_model) == {Tensor("float", <<b, l, d_model>>) : b \in Batches, l \in Lengths}

\* query, key, value = w_q(q), w_k(k), w_v(v) in heads; attention(query, key, value, mask)
CacheAttend(t) ==
    /\ mha.pc = "live"
    /\ mha.th[t].pc = "idle"
    /\ \E x \in CacheInputs(mha.heap[1].d_model) : \E mask \in InputMasks(x) :
       \E query \in {ProjectHeads(mha.heap[1].w_q, x, mha.heap[1].h, mha.heap[1].d_k)} :
       \E key \in {ProjectHeads(mha.heap[1].w_k, x, mha.heap[1].h, mha.heap[1].d_k)} :
       \E value \in {ProjectHeads(mha.heap[1].w_v, x, mha.heap[1].h, mha.heap[1].d_k)} :
          mha' = [mha EXCEPT !.th[t] = [pc |-> "attended", x |-> x, mask |-> mask,
                                        att |-> Attention(query, key, value, mask)]]
    /\ UNCHANGED <<built, heap, caller, attn, expl, shp, penc>>

\* x, self.attention_scores = ...; return self.w_o(x); an exception of
\* attention leaves the call before the assignment
CacheFinish(t) ==
    /\ mha.pc = "live"
    /\ mha.th[t].pc = "attended"
    /\ \E r \in {AttentionOutput(mha.heap, 1, mha.th[t].att, mha.th[t].mask)} :
          mha' = [mha EXCEPT
                     !.heap = r.heap,
                     !.writes = IF IsError(r.out) THEN @ ELSE Append(@, t),
                     !.th[t] = [pc |-> IF IsError(r.out) THEN "raised" ELSE "returned",
                                out |-> r.out] @@ @]
    /\ UNCHANGED <<built, heap, caller, attn, expl, shp, penc>>

\* the caller reads block.attention_scores after its own call
CacheRead(t) ==
    /\ mha.pc = "live"
    /\ mha.th[t].pc = "returned"
    /\ mha' = [mha EXCEPT !.th[t] = [pc |-> "read",
                                     observed |-> mha.heap[1].attention_scores,
                                     seen |-> mha.writes] @@ @]
    /\ UNCHANGED <<built, heap, caller, attn, expl, shp, penc>>

CacheAttendAny == \E t \in Threads : CacheAttend(t)
CacheFinishAny == \E t \in Threads : CacheFinish(t)
CacheReadAny == \E t \in Threads : CacheRead(t)

NextCache == CacheConstruct \/ CacheAttendAny \/ CacheFinishAny \/ CacheReadAny

SpecCache == Init /\ [][NextCache]_vars

\* the call of thread t made alone on a block that no other call touches
Alone(t) ==
    MultiHeadAttentionBlockForward(
        <<[mha.heap[1] EXCEPT !.attention_scores = NoneValue]>>, 1,
        mha.th[t].x, mha.th[t].x, mha.th[t].x, mha.th[t].mask)

Last(seq) == seq[Len(seq)]

\* C6: every forward call that returns overwrites the cached attention_scores
\* with the weights it computed, so the cache holds the weights of the latest
\* assignment and a read that follows the reader's own assignment with no
\* other in between observes the reader's weights; with two interleaved calls
\* a reader may observe the other call's weights; each call's output is
\* computed from its own inputs only.
C6_CacheHoldsLatestCall ==
    mha.pc = "live" =>
        /\ mha.heap[1].attention_scores =
              IF mha.writes = <<>> THEN NoneValue ELSE mha.th[Last(mha.writes)].att[2]
        /\ \A t \in Threads :
              /\ mha.th[t].pc \in {"returned", "read"} =>
                    /\ t \in SeqRange(mha.writes)
                    /\ mha.th[t].out = Alone(t).out
                    /\ mha.th[t].att[2] = Alone(t).heap[1].attention_scores
              /\ mha.th[t].pc = "raised" =>
                    /\ t \notin SeqRange(mha.writes)
                    /\ mha.th[t].out = Alone(t).out
              /\ mha.th[t].pc = "read" =>
                    /\ t \in SeqRange(mha.th[t].seen)
                    /\ Last(mha.th[t].seen) = t => mha.th[t].observed = mha.th[t].att[2]
                    /\ (\A u \in Threads \ {t} : mha.th[u].pc = "idle") =>
                          Last(mha.th[t].seen) = t

\* a reader that observes the weights of the other call
C6_Witness ==
    /\ mha.pc = "live"
    /\ \E t \in Threads : \E u \in Threads \ {t} :
          /\ mha.th[t].pc = "read"
          /\ mha.th[t].observed # mha.th[t].att[2]
          /\ mha.th[t].observed = mha.th[u].att[2]
          /\ mha.th[t].out = Alone(t).out

(***************************************************************************)
(* MultiHeadAttentionBlock.attention by value.  Scores are integers,       *)
(* weights are in thousandths.                                             *)
(***************************************************************************)
MaxKeys == 2
Fill == -1000000000

RECURSIVE SumTo(_, _)
SumTo(f, n) == IF n = 0 THEN 0 ELSE f[n] + SumTo(f, n - 1)

Dot(u, v) == SumTo([c \in 1..Len(u) |-> u[c] * v[c]], Len(u))

\* math.sqrt(d_k), exact for the squares
Sqrt(n) == CHOOSE r \in 0..n : r * r <= n /\ (r + 1) * (r + 1) > n

\* (query @ key.transpose(-2, -1)) / math.sqrt(d_k), d_k = query.shape[-1]
AttentionScores(query, key) ==
    [b \in 1..Len(query) |-> [hd \in 1..Len(query[b]) |->
        [i \in 1..Len(query[b][hd]) |-> [j \in 1..Len(key[b][hd]) |->
            Quot(Dot(query[b][hd][i], key[b][hd][j]), Sqrt(Len(query[b][hd][i])))]]]]

\* mask.unsqueeze(1).unsqueeze(2).expand(-1, query.shape[1], query.shape[2], -1)
ExpandedMask(mask, h, q_len) ==
    [b \in 1..Len(mask) |-> [hd \in 1..h |-> [i \in 1..q_len |-> mask[b]]]]

\* the opposite convention: masked_fill_(mask == 0, -1e9)
MaskedFillWhereZero(scores, m) ==
    [b \in 1..Len(scores) |-> [hd \in 1..Len(scores[b]) |->
        [i \in 1..Len(scores[b][hd]) |-> [j \in 1..Len(scores[b][hd][i]) |->
            IF m[b][hd][i][j] = 0 THEN Fill ELSE scores[b][hd][i][j]]]]]

\* attention_scores.masked_fill_(mask == 1, -1e9)
MaskedFill(scores, m) ==
    [b \in 1..Len(scores) |-> [hd \in 1..Len(scores[b]) |->
        [i \in 1..Len(scores[b][hd]) |-> [j \in 1..Len(scores[b][hd][i]) |->
            IF m[b][hd][i][j] = 1 THEN Fill ELSE scores[b][hd][i][j]]]]]

\* e ^ (-n) in millionths, n >= 0; single precision has no value below e ^ (-103)
RECURSIVE ExpNeg(_)
ExpNeg(n) ==
    IF n > 103 THEN 0
    ELSE IF n = 0 THEN 1000000
    ELSE (ExpNeg(n - 1) * 368) \div 1000

RECURSIVE RowMax(_, _)
RowMax(row, n) == IF n = 1 THEN row[1] ELSE Max(row[n], RowMax(row, n - 1))

Normalised(e) == With(SumTo(e, Len(e)), LAMBDA z : [j \in 1..Len(e) |-> (1000 * e[j]) \div z])

\* softmax(dim = -1) of one row
SoftmaxRow(row) ==
    With(RowMax(row, Len(row)), LAMBDA mx :
        With([j \in 1..Len(row) |-> ExpNeg(mx - row[j])], LAMBDA e : Normalised(e)))

Softmax(scores) ==
    [b \in 1..Len(scores) |-> [hd \in 1..Len(scores[b]) |->
        [i \in 1..Len(scores[b][hd]) |-> SoftmaxRow(scores[b][hd][i])]]]

\* nn.Dropout on the weights
DropoutWeights(w, drop, pct) ==
    IF ~drop.training THEN w
    ELSE [b \in 1..Len(w) |-> [hd \in 1..Len(w[b]) |->
            [i \in 1..Len(w[b][hd]) |-> [j \in 1..Len(w[b][hd][i]) |->
                IF <<b, hd, i, j>> \in drop.dropped THEN 0
                ELSE Kept(w[b][hd][i][j], pct)]]]]

\* attention_scores @ value
ApplyWeights(w, value) ==
    [b \in 1..Len(w) |-> [hd \in 1..Len(w[b]) |-> [i \in 1..Len(w[b][hd]) |->
        [c \in 1..Len(value[b][hd][1]) |->
            SumTo([j \in 1..Len(w[b][hd][i]) |-> w[b][hd][i][j] * value[b][hd][j][c]],
                  Len(w[b][hd][i]))]]]]

\* the scores after the optional fill
Filled(raw, query, mask) ==
    IF mask = <<>> THEN raw
    ELSE MaskedFill(raw, ExpandedMask(mask, Len(query[1]), Len(query[1][1])))

\* MultiHeadAttentionBlock.attention; mask <<>> stands for None
AttentionValues(query, key, value, mask, drop, pct) ==
    With(AttentionScores(query, key), LAMBDA raw :
    With(Filled(raw, query, mask), LAMBDA filled :
    With(DropoutWeights(Softmax(filled), drop, pct), LAMBDA weights :
        [raw |-> raw, filled |-> filled, attention_scores |-> weights,
         x |-> ApplyWeights(weights, value)])))

(***************************************************************************)
(* Specification SpecAttn: attention is called on small tensors.           *)
(***************************************************************************)
\* (batch, h, len, d_k) contents between -2 and 2
Pattern4(batch, h, len, d_k, seed) ==
    [b \in 1..batch |-> [hd \in 1..h |-> [i \in 1..len |-> [c \in 1..d_k |->
        ((seed + 3 * b + 5 * hd + 7 * i + 11 * c) % 5) - 2]]]]

\* one batch element's mask: nothing, everything, the first key, or all but the first
MaskRows(k_len) ==
    {[j \in 1..k_len |-> 0], [j \in 1..k_len |-> 1],
     [j \in 1..k_len |-> IF j = 1 THEN 1 ELSE 0],
     [j \in 1..k_len |-> IF j = 1 THEN 0 ELSE 1]}

Masks(batch, k_len) == {<<>>} \cup [1..batch -> MaskRows(k_len)]

WeightDrops == {[training |-> FALSE, dropped |-> {}], [training |-> TRUE, dropped |-> {}],
                [training |-> TRUE, dropped |-> {<<1, 1, 1, 1>>}]}

AttnCall ==
    /\ attn = Idle
    /\ \E batch \in Batches, h \in 1..2, q_len \in 1..2, k_len \in 1..MaxKeys,
          d_k \in {1, 4}, drop \in WeightDrops :
       \E mask \in Masks(batch, k_len) :
       \E query \in {Pattern4(batch, h, q_len, d_k, 0)} :
       \E key \in {Pattern4(batch, h, k_len, d_k, 1)} :
       \E value \in {Pattern4(batch, h, k_len, d_k, 2)} :
       \E r \in {AttentionValues(query, key, value, mask, drop, DefaultDropoutPct)} :
          attn' = [pc |-> "called", query |-> query, key |-> key, value |-> value,
                   mask |-> mask, drop |-> drop] @@ r
    /\ UNCHANGED <<built, heap, caller, mha, expl, shp, penc>>

NextAttn == AttnCall

SpecAttn == Init /\ [][NextAttn]_vars

Masked == attn.pc = "called" /\ attn.mask # <<>>

Cells ==
    {<<b, hd, i, j>> : b \in 1..Len(attn.query), hd \in 1..Len(attn.query[1]),
                       i \in 1..Len(attn.query[1][1]), j \in 1..Len(attn.key[1][1])}

SomeKeyOpen(b) == \E j \in 1..Len(attn.mask[b]) : attn.mask[b][j] = 0

====
